---------------------------- MODULE Spec2Model ----------------------------
(***************************************************************************)
(* Model of lockfree_rb_q.cc: the lock-free N-producers M-consumers        *)
(* ring-buffer queue (LockFreeQueue) and the mutex-protected ring-buffer   *)
(* queue (NaiveQueue), each driven by the Producer / Consumer workers of   *)
(* the test.                                                               *)
(*                                                                         *)
(* Every access to a shared location (head_, tail_, last_head_,            *)
(* last_tail_, thr_p_[i], ptr_array_[i], n) is one atomic step; the steps  *)
(* of different threads interleave freely.  The file targets x86_64: the   *)
(* coordination variables are volatile, the fetch-and-add is a locked      *)
(* instruction and step 1 is followed by a full fence, so the interleaving *)
(* of single accesses covers the executions of the build.                  *)
(***************************************************************************)
EXTENDS Integers, Naturals, Sequences, FiniteSets, TLC

(***************************************************************************)
(* Bounds of the model.                                                    *)
(***************************************************************************)
\* items of the workload with two producers and two consumers
MaxItems22 == 3
\* items of the workload with fewer threads
MaxItems == 5
\* items of the workload of the one producer, one consumer specification
MaxItemsSPSC == 6
\* items of the workload of the fair specification: with two producers and
\* two consumers, and with fewer threads
MaxItemsFair22 == 2
MaxItemsFair == 3
\* items of the workloads with thread indexes out of range: with two
\* producers and two consumers, and with fewer threads
MaxItemsMisuse22 == 2
MaxItemsMisuse == 3
\* items of the workload of the NaiveQueue test
MaxItemsNaive == 4
\* items of the workloads of the two tests in a row: with two producers and
\* two consumers, and with fewer threads
MaxItemsMain22 == 2
MaxItemsMain == 3

(***************************************************************************)
(* Program constants.  The sizes are scaled down: the test runs 16         *)
(* producers and 16 consumers on a ring of 32 * 1024 slots.                *)
(***************************************************************************)
QUEUE_SIZE == 2
PRODUCERS == 2
CONSUMERS == 2
\* "no reservation"; stands for the 64 bit ULONG_MAX, larger than every
\* index the bounded model can produce
ULONG_MAX == 2147483647
\* values of the test array x
X_EMPTY == 0
X_MISSED == 255
\* the null pointer; the pointer x + i is modelled as i + 1
NULL == 0

Ptr(i) == i + 1

Idx(v) == v - 1

Max(a, b) == IF a > b THEN a ELSE b

\* bitwise and of two naturals, as the & of the source
RECURSIVE BitAnd(_, _)
BitAnd(a, b) ==
    IF a = 0 \/ b = 0 THEN 0
    ELSE 2 * BitAnd(a \div 2, b \div 2) + (IF a % 2 = 1 /\ b % 2 = 1 THEN 1 ELSE 0)

VARIABLES
    Q_SIZE,          \* capacity of the ring (template parameter)
    Total,           \* items of the workload: N * PRODUCERS of the test
    n_producers_, n_consumers_,
    p_thr_id, c_thr_id,          \* __thr_id of each producer / consumer thread
    head_, tail_, last_head_, last_tail_,
    thr_p_,          \* registry: [head, tail] per thread index
    ptr_array_,      \* the slots
    x,               \* the test array
    n,               \* the shared pop counter of the consumers
    aborted,         \* an assert of a consumer failed
    ppc, pi, preg, pmin, pk,     \* producers: position, loop index i,
                                 \* register, scan minimum, scan index
    cpc, creg, cmin, ck, cv,     \* consumers: position, register, scan
                                 \* minimum, scan index, popped pointer v
    pushed,          \* history: pointers in the order of the head_ claims
    popped,          \* history: pointers returned by pop, per consumer
    test,            \* the queue run_test drives: "lockfree" or "naive"
    nq_head_, nq_tail_, nq_ptr_array_,   \* NaiveQueue: head_, tail_, slots
    mtx_,            \* NaiveQueue: the mutex is locked
    cond_empty_,     \* NaiveQueue: consumers blocked in cond_empty_.wait
    cond_overflow_,  \* NaiveQueue: producers blocked in cond_overflow_.wait
    popped_lf        \* history: what popped was when the first test ended

qvars == <<Q_SIZE, Total, n_producers_, n_consumers_, p_thr_id, c_thr_id>>
shared == <<head_, tail_, last_head_, last_tail_, thr_p_, ptr_array_>>
pvars == <<ppc, pi, preg, pmin, pk>>
cvars == <<cpc, creg, cmin, ck, cv>>
nvars == <<test, nq_head_, nq_tail_, nq_ptr_array_, mtx_, cond_empty_, cond_overflow_,
           popped_lf>>
vars == <<qvars, shared, x, n, aborted, pvars, cvars, pushed, popped, nvars>>

Q_MASK == Q_SIZE - 1

\* the workers of run_test: the i-th Producer and the i-th Consumer
Producers == 0 .. (n_producers_ - 1)

Consumers == 0 .. (n_consumers_ - 1)

\* assert(ThrId() < std::max(n_consumers_, n_producers_)) in thr_pos()
ThrPosAssert(id) == id < Max(n_consumers_, n_producers_)

(***************************************************************************)
(* Construction: LockFreeQueue(n_producers, n_consumers) and the start of  *)
(* run_test.  The slots come from memalign and are not initialised: they   *)
(* hold an arbitrary pointer, null or not.                                 *)
(***************************************************************************)
Garbage == {NULL, Ptr(0)}

\* Producer(&q, i + dp) and Consumer(&q, i + dc) for the i-th worker of each
\* role: run_test passes i
InitRun(q, np, nc, tot, dp, dc) ==
    /\ Q_SIZE = q
    /\ Total = tot
    /\ n_producers_ = np
    /\ n_consumers_ = nc
    /\ p_thr_id = [p \in 0 .. (np - 1) |-> p + dp]
    /\ c_thr_id = [c \in 0 .. (nc - 1) |-> c + dc]
    /\ head_ = 0
    /\ tail_ = 0
    /\ last_head_ = 0
    /\ last_tail_ = 0
    /\ thr_p_ = [i \in 0 .. (Max(np, nc) - 1) |-> [head |-> ULONG_MAX, tail |-> ULONG_MAX]]
    /\ \E g \in Garbage : ptr_array_ = [s \in 0 .. (q - 1) |-> g]
    /\ x = [i \in 0 .. (tot - 1) |-> X_EMPTY]
    /\ n = 0
    /\ aborted = FALSE
    /\ ppc = [p \in 0 .. (np - 1) |-> "p_loop"]
    /\ pi = [p \in 0 .. (np - 1) |-> p + dp]
    /\ preg = [p \in 0 .. (np - 1) |-> 0]
    /\ pmin = [p \in 0 .. (np - 1) |-> 0]
    /\ pk = [p \in 0 .. (np - 1) |-> 0]
    /\ cpc = [c \in 0 .. (nc - 1) |-> "c_loop"]
    /\ creg = [c \in 0 .. (nc - 1) |-> 0]
    /\ cmin = [c \in 0 .. (nc - 1) |-> 0]
    /\ ck = [c \in 0 .. (nc - 1) |-> 0]
    /\ cv = [c \in 0 .. (nc - 1) |-> NULL]
    /\ pushed = <<>>
    /\ popped = [c \in 0 .. (nc - 1) |-> <<>>]

\* NaiveQueue(): head_(0), tail_(0), slots from memalign, a free mutex and
\* nobody waiting
NaiveQueueNew ==
    /\ nq_head_ = 0
    /\ nq_tail_ = 0
    /\ \E g \in Garbage : nq_ptr_array_ = [s \in 0 .. (Q_SIZE - 1) |-> g]
    /\ mtx_ = FALSE
    /\ cond_empty_ = {}
    /\ cond_overflow_ = {}

\* main before "NaiveQueue<q_type> n_q": the first test runs and n_q does
\* not exist yet; its variables hold placeholders that no step reads
NaiveQueueUnbuilt ==
    /\ test = "lockfree"
    /\ nq_head_ = 0
    /\ nq_tail_ = 0
    /\ nq_ptr_array_ = <<>>
    /\ mtx_ = FALSE
    /\ cond_empty_ = {}
    /\ cond_overflow_ = {}
    /\ popped_lf = <<>>

InitQueue(q, np, nc, tot) == InitRun(q, np, nc, tot, 0, 0) /\ NaiveQueueUnbuilt

\* run_test with any number of producers and consumers up to
\* PRODUCERS x CONSUMERS on a ring of QUEUE_SIZE slots
Init ==
    \E np \in 1 .. PRODUCERS, nc \in 1 .. CONSUMERS :
        InitQueue(QUEUE_SIZE, np, nc,
                  IF np = PRODUCERS /\ nc = CONSUMERS THEN MaxItems22 ELSE MaxItems)

\* workers whose thread indexes are counted from 0 or from 1: with dp = 1
\* the last producer, with dc = 1 the last consumer has an index outside
\* the range of its role
InitMisuse ==
    \E np \in 1 .. PRODUCERS, nc \in 1 .. CONSUMERS, dp \in 0 .. 1, dc \in 0 .. 1 :
        InitRun(QUEUE_SIZE, np, nc,
                IF np = PRODUCERS /\ nc = CONSUMERS THEN MaxItemsMisuse22 ELSE MaxItemsMisuse,
                dp, dc)
        /\ NaiveQueueUnbuilt

\* one producer and one consumer, on a ring of QUEUE_SIZE or 2 * QUEUE_SIZE slots
InitSPSC ==
    \E q \in {QUEUE_SIZE, 2 * QUEUE_SIZE} : InitQueue(q, 1, 1, MaxItemsSPSC)

\* the workloads of the fair specification: up to PRODUCERS x CONSUMERS
\* threads on a ring of QUEUE_SIZE slots, and PRODUCERS x CONSUMERS threads
\* on a ring of a single slot (Q_SIZE = 1, Q_MASK = 0), which is full after
\* one push
InitMPMC ==
    \/ \E np \in 1 .. PRODUCERS, nc \in 1 .. CONSUMERS :
          InitQueue(QUEUE_SIZE, np, nc,
                    IF np = PRODUCERS /\ nc = CONSUMERS THEN MaxItemsFair22 ELSE MaxItemsFair)
    \/ InitQueue(1, PRODUCERS, CONSUMERS, MaxItemsFair22)

(***************************************************************************)
(* Producer::operator() and LockFreeQueue::push                            *)
(***************************************************************************)
\* a producer loop that stops one element early
ProducerLoopShort(p) ==
    /\ ppc[p] = "p_loop"
    /\ IF pi[p] < Total - 1
       THEN /\ x' = [x EXCEPT ![pi[p]] = X_MISSED]
            /\ preg' = [preg EXCEPT ![p] = head_]
            /\ ppc' = [ppc EXCEPT ![p] = "push_2"]
       ELSE /\ ppc' = [ppc EXCEPT ![p] = "done"]
            /\ UNCHANGED <<x, preg>>
    /\ UNCHANGED <<qvars, shared, n, aborted, pi, pmin, pk, cvars, pushed, popped>>

\* for (i = thr_id(); i < N * PRODUCERS; ...) { x[i] = X_MISSED; push(x + i)
\* up to the read of head_ in "thr_pos().head = head_": the loop test and
\* the store into x[i] touch nothing another thread can see before the push
ProducerLoop(p) ==
    /\ ppc[p] = "p_loop"
    /\ IF pi[p] < Total
       THEN /\ x' = [x EXCEPT ![pi[p]] = X_MISSED]
            /\ preg' = [preg EXCEPT ![p] = head_]
            /\ ppc' = [ppc EXCEPT ![p] = "push_2"]
       ELSE /\ ppc' = [ppc EXCEPT ![p] = "done"]
            /\ UNCHANGED <<x, preg>>
    /\ UNCHANGED <<qvars, shared, n, aborted, pi, pmin, pk, cvars, pushed, popped>>

\* a push without the first assignment: the entry stays ULONG_MAX until the
\* result of the fetch-and-add is stored
PushPublishSkipped(p) ==
    /\ ppc[p] = "push_2"
    /\ preg' = [preg EXCEPT ![p] = 0]
    /\ ppc' = [ppc EXCEPT ![p] = "push_3"]
    /\ UNCHANGED <<qvars, shared, x, n, aborted, pi, pmin, pk, cvars, pushed, popped>>

\* thr_pos().head = head_ : the assert of thr_pos(), the store, then
\* __sync_synchronize().  This is the first call of thr_pos() in a push and
\* the thread index never changes: the later calls assert the same.
PushPublish(p) ==
    /\ ppc[p] = "push_2"
    /\ IF ThrPosAssert(p_thr_id[p])
       THEN /\ thr_p_' = [thr_p_ EXCEPT ![p_thr_id[p]].head = preg[p]]
            /\ ppc' = [ppc EXCEPT ![p] = "push_3"]
            /\ aborted' = aborted
       ELSE /\ aborted' = TRUE
            /\ ppc' = [ppc EXCEPT ![p] = "abort"]
            /\ thr_p_' = thr_p_
    /\ preg' = [preg EXCEPT ![p] = 0]
    /\ UNCHANGED <<qvars, head_, tail_, last_head_, last_tail_, ptr_array_, x, n,
                   pi, pmin, pk, cvars, pushed, popped>>

\* a claim that takes the value of head_ after the addition
PushFetchAddNew(p) ==
    /\ ppc[p] = "push_3"
    /\ preg' = [preg EXCEPT ![p] = head_ + 1]
    /\ head_' = head_ + 1
    /\ pushed' = Append(pushed, Ptr(pi[p]))
    /\ ppc' = [ppc EXCEPT ![p] = "push_4"]
    /\ UNCHANGED <<qvars, tail_, last_head_, last_tail_, thr_p_, ptr_array_, x, n, aborted,
                   pi, pmin, pk, cvars, popped>>

\* __sync_fetch_and_add(&head_, 1)
PushFetchAdd(p) ==
    /\ ppc[p] = "push_3"
    /\ preg' = [preg EXCEPT ![p] = head_]
    /\ head_' = head_ + 1
    /\ pushed' = Append(pushed, Ptr(pi[p]))
    /\ ppc' = [ppc EXCEPT ![p] = "push_4"]
    /\ UNCHANGED <<qvars, tail_, last_head_, last_tail_, thr_p_, ptr_array_, x, n, aborted,
                   pi, pmin, pk, cvars, popped>>

\* a second assignment that stores head_ as it is now
PushStoreHeadReread(p) ==
    /\ ppc[p] = "push_4"
    /\ thr_p_' = [thr_p_ EXCEPT ![p_thr_id[p]].head = head_]
    /\ preg' = [preg EXCEPT ![p] = 0]
    /\ ppc' = [ppc EXCEPT ![p] = "push_wait"]
    /\ UNCHANGED <<qvars, head_, tail_, last_head_, last_tail_, ptr_array_, x, n, aborted,
                   pi, pmin, pk, cvars, pushed, popped>>

\* thr_pos().head = <result of the fetch-and-add>
PushStoreHead(p) ==
    /\ ppc[p] = "push_4"
    /\ thr_p_' = [thr_p_ EXCEPT ![p_thr_id[p]].head = preg[p]]
    /\ preg' = [preg EXCEPT ![p] = 0]
    /\ ppc' = [ppc EXCEPT ![p] = "push_wait"]
    /\ UNCHANGED <<qvars, head_, tail_, last_head_, last_tail_, ptr_array_, x, n, aborted,
                   pi, pmin, pk, cvars, pushed, popped>>

\* a wait that lets the producer run one slot further
PushWaitCondOffByOne(h, lt) == h > lt + Q_SIZE

\* while (thr_pos().head >= last_tail_ + Q_SIZE)
PushWaitCond(h, lt) == h >= lt + Q_SIZE

PushWait(p) ==
    /\ ppc[p] = "push_wait"
    /\ ppc' = [ppc EXCEPT ![p] =
                 IF PushWaitCond(thr_p_[p_thr_id[p]].head, last_tail_) THEN "push_min" ELSE "push_write"]
    /\ UNCHANGED <<qvars, shared, x, n, aborted, pi, preg, pmin, pk, cvars, pushed, popped>>

\* a scan of the producer that starts from head_
PushMinFromHead(p) ==
    /\ ppc[p] = "push_min"
    /\ pmin' = [pmin EXCEPT ![p] = head_]
    /\ pk' = [pk EXCEPT ![p] = 0]
    /\ ppc' = [ppc EXCEPT ![p] = "push_scan"]
    /\ UNCHANGED <<qvars, shared, x, n, aborted, pi, preg, cvars, pushed, popped>>

\* sched_yield(); auto min = tail_;
PushMin(p) ==
    /\ ppc[p] = "push_min"
    /\ pmin' = [pmin EXCEPT ![p] = tail_]
    /\ pk' = [pk EXCEPT ![p] = 0]
    /\ ppc' = [ppc EXCEPT ![p] = "push_scan"]
    /\ UNCHANGED <<qvars, shared, x, n, aborted, pi, preg, cvars, pushed, popped>>

\* for (i = 0; i < n_consumers_; ++i) { tmp_t = thr_p_[i].tail; ... }
\* last_tail_ = min;
\* a scan that leaves out the last consumer
PushScanBoundShort == n_consumers_ - 1

PushScanBound == n_consumers_

\* a scan that keeps the greatest value it reads
PushScanMax(p) ==
    /\ ppc[p] = "push_scan"
    /\ IF pk[p] < n_consumers_
       THEN /\ pmin' = [pmin EXCEPT ![p] =
                          IF thr_p_[pk[p]].tail > pmin[p] THEN thr_p_[pk[p]].tail ELSE pmin[p]]
            /\ pk' = [pk EXCEPT ![p] = pk[p] + 1]
            /\ UNCHANGED <<ppc, last_tail_>>
       ELSE /\ last_tail_' = pmin[p]
            /\ pmin' = [pmin EXCEPT ![p] = 0]
            /\ pk' = [pk EXCEPT ![p] = 0]
            /\ ppc' = [ppc EXCEPT ![p] = "push_wait"]
    /\ UNCHANGED <<qvars, head_, tail_, last_head_, thr_p_, ptr_array_, x, n, aborted,
                   pi, preg, cvars, pushed, popped>>

PushScan(p) ==
    /\ ppc[p] = "push_scan"
    /\ IF pk[p] < PushScanBound
       THEN /\ pmin' = [pmin EXCEPT ![p] =
                          IF thr_p_[pk[p]].tail < pmin[p] THEN thr_p_[pk[p]].tail ELSE pmin[p]]
            /\ pk' = [pk EXCEPT ![p] = pk[p] + 1]
            /\ UNCHANGED <<ppc, last_tail_>>
       ELSE /\ last_tail_' = pmin[p]
            /\ pmin' = [pmin EXCEPT ![p] = 0]
            /\ pk' = [pk EXCEPT ![p] = 0]
            /\ ppc' = [ppc EXCEPT ![p] = "push_wait"]
    /\ UNCHANGED <<qvars, head_, tail_, last_head_, thr_p_, ptr_array_, x, n, aborted,
                   pi, preg, cvars, pushed, popped>>

\* ptr_array_[thr_pos().head & Q_MASK] = ptr;
PushWrite(p) ==
    /\ ppc[p] = "push_write"
    /\ ptr_array_' = [ptr_array_ EXCEPT ![BitAnd(thr_p_[p_thr_id[p]].head, Q_MASK)] = Ptr(pi[p])]
    /\ ppc' = [ppc EXCEPT ![p] = "push_rel"]
    /\ UNCHANGED <<qvars, head_, tail_, last_head_, last_tail_, thr_p_, x, n, aborted,
                   pi, preg, pmin, pk, cvars, pushed, popped>>

\* a push that returns without giving up its entry
PushReleaseForgotten(p) ==
    /\ ppc[p] = "push_rel"
    /\ pi' = [pi EXCEPT ![p] = pi[p] + n_producers_]
    /\ ppc' = [ppc EXCEPT ![p] = "p_loop"]
    /\ UNCHANGED <<qvars, shared, x, n, aborted, preg, pmin, pk, cvars, pushed, popped>>

\* thr_pos().head = ULONG_MAX; return; i += PRODUCERS
PushRelease(p) ==
    /\ ppc[p] = "push_rel"
    /\ thr_p_' = [thr_p_ EXCEPT ![p_thr_id[p]].head = ULONG_MAX]
    /\ pi' = [pi EXCEPT ![p] = pi[p] + n_producers_]
    /\ ppc' = [ppc EXCEPT ![p] = "p_loop"]
    /\ UNCHANGED <<qvars, head_, tail_, last_head_, last_tail_, ptr_array_, x, n, aborted,
                   preg, pmin, pk, cvars, pushed, popped>>

(***************************************************************************)
(* Consumer::operator() and LockFreeQueue::pop                             *)
(***************************************************************************)
\* while (n.fetch_add(1) < N * PRODUCERS) { v = pop();
ConsumerLoop(c) ==
    /\ cpc[c] = "c_loop"
    /\ n' = n + 1
    /\ cpc' = [cpc EXCEPT ![c] = IF n < Total THEN "pop_1" ELSE "done"]
    /\ UNCHANGED <<qvars, shared, x, aborted, pvars, creg, cmin, ck, cv, pushed, popped>>

\* thr_pos().tail = tail_ : the read of tail_
PopReadTail(c) ==
    /\ cpc[c] = "pop_1"
    /\ creg' = [creg EXCEPT ![c] = tail_]
    /\ cpc' = [cpc EXCEPT ![c] = "pop_2"]
    /\ UNCHANGED <<qvars, shared, x, n, aborted, pvars, cmin, ck, cv, pushed, popped>>

\* a pop without the first assignment
PopPublishSkipped(c) ==
    /\ cpc[c] = "pop_2"
    /\ creg' = [creg EXCEPT ![c] = 0]
    /\ cpc' = [cpc EXCEPT ![c] = "pop_3"]
    /\ UNCHANGED <<qvars, shared, x, n, aborted, pvars, cmin, ck, cv, pushed, popped>>

\* a pop whose first assignment publishes head_ in place of tail_
PopPublishHead(c) ==
    /\ cpc[c] = "pop_2"
    /\ thr_p_' = [thr_p_ EXCEPT ![c_thr_id[c]].tail = head_]
    /\ creg' = [creg EXCEPT ![c] = 0]
    /\ cpc' = [cpc EXCEPT ![c] = "pop_3"]
    /\ UNCHANGED <<qvars, head_, tail_, last_head_, last_tail_, ptr_array_, x, n, aborted,
                   pvars, cmin, ck, cv, pushed, popped>>

\* thr_pos().tail = tail_ : the assert of thr_pos(), the store, then
\* __sync_synchronize()
PopPublish(c) ==
    /\ cpc[c] = "pop_2"
    /\ IF ThrPosAssert(c_thr_id[c])
       THEN /\ thr_p_' = [thr_p_ EXCEPT ![c_thr_id[c]].tail = creg[c]]
            /\ cpc' = [cpc EXCEPT ![c] = "pop_3"]
            /\ aborted' = aborted
       ELSE /\ aborted' = TRUE
            /\ cpc' = [cpc EXCEPT ![c] = "abort"]
            /\ thr_p_' = thr_p_
    /\ creg' = [creg EXCEPT ![c] = 0]
    /\ UNCHANGED <<qvars, head_, tail_, last_head_, last_tail_, ptr_array_, x, n,
                   pvars, cmin, ck, cv, pushed, popped>>

\* __sync_fetch_and_add(&tail_, 1)
PopFetchAdd(c) ==
    /\ cpc[c] = "pop_3"
    /\ creg' = [creg EXCEPT ![c] = tail_]
    /\ tail_' = tail_ + 1
    /\ cpc' = [cpc EXCEPT ![c] = "pop_4"]
    /\ UNCHANGED <<qvars, head_, last_head_, last_tail_, thr_p_, ptr_array_, x, n, aborted,
                   pvars, cmin, ck, cv, pushed, popped>>

\* thr_pos().tail = <result of the fetch-and-add>
PopStoreTail(c) ==
    /\ cpc[c] = "pop_4"
    /\ thr_p_' = [thr_p_ EXCEPT ![c_thr_id[c]].tail = creg[c]]
    /\ creg' = [creg EXCEPT ![c] = 0]
    /\ cpc' = [cpc EXCEPT ![c] = "pop_wait"]
    /\ UNCHANGED <<qvars, head_, tail_, last_head_, last_tail_, ptr_array_, x, n, aborted,
                   pvars, cmin, ck, cv, pushed, popped>>

\* a wait that lets the consumer run one slot further
PopWaitCondOffByOne(t, lh) == t > lh

\* while (thr_pos().tail >= last_head_)
PopWaitCond(t, lh) == t >= lh

PopWait(c) ==
    /\ cpc[c] = "pop_wait"
    /\ cpc' = [cpc EXCEPT ![c] =
                 IF PopWaitCond(thr_p_[c_thr_id[c]].tail, last_head_) THEN "pop_min" ELSE "pop_read"]
    /\ UNCHANGED <<qvars, shared, x, n, aborted, pvars, creg, cmin, ck, cv, pushed, popped>>

\* a scan of the consumer that starts from tail_
PopMinFromTail(c) ==
    /\ cpc[c] = "pop_min"
    /\ cmin' = [cmin EXCEPT ![c] = tail_]
    /\ ck' = [ck EXCEPT ![c] = 0]
    /\ cpc' = [cpc EXCEPT ![c] = "pop_scan"]
    /\ UNCHANGED <<qvars, shared, x, n, aborted, pvars, creg, cv, pushed, popped>>

\* sched_yield(); auto min = head_;
PopMin(c) ==
    /\ cpc[c] = "pop_min"
    /\ cmin' = [cmin EXCEPT ![c] = head_]
    /\ ck' = [ck EXCEPT ![c] = 0]
    /\ cpc' = [cpc EXCEPT ![c] = "pop_scan"]
    /\ UNCHANGED <<qvars, shared, x, n, aborted, pvars, creg, cv, pushed, popped>>

\* for (i = 0; i < n_producers_; ++i) { tmp_h = thr_p_[i].head; ... }
\* last_head_ = min;
\* a scan that leaves out the last producer
PopScanBoundShort == n_producers_ - 1

PopScanBound == n_producers_

\* a scan of the consumer that keeps the greatest value it reads
PopScanMax(c) ==
    /\ cpc[c] = "pop_scan"
    /\ IF ck[c] < n_producers_
       THEN /\ cmin' = [cmin EXCEPT ![c] =
                          IF thr_p_[ck[c]].head > cmin[c] THEN thr_p_[ck[c]].head ELSE cmin[c]]
            /\ ck' = [ck EXCEPT ![c] = ck[c] + 1]
            /\ UNCHANGED <<cpc, last_head_>>
       ELSE /\ last_head_' = cmin[c]
            /\ cmin' = [cmin EXCEPT ![c] = 0]
            /\ ck' = [ck EXCEPT ![c] = 0]
            /\ cpc' = [cpc EXCEPT ![c] = "pop_wait"]
    /\ UNCHANGED <<qvars, head_, tail_, last_tail_, thr_p_, ptr_array_, x, n, aborted,
                   pvars, creg, cv, pushed, popped>>

PopScan(c) ==
    /\ cpc[c] = "pop_scan"
    /\ IF ck[c] < PopScanBound
       THEN /\ cmin' = [cmin EXCEPT ![c] =
                          IF thr_p_[ck[c]].head < cmin[c] THEN thr_p_[ck[c]].head ELSE cmin[c]]
            /\ ck' = [ck EXCEPT ![c] = ck[c] + 1]
            /\ UNCHANGED <<cpc, last_head_>>
       ELSE /\ last_head_' = cmin[c]
            /\ cmin' = [cmin EXCEPT ![c] = 0]
            /\ ck' = [ck EXCEPT ![c] = 0]
            /\ cpc' = [cpc EXCEPT ![c] = "pop_wait"]
    /\ UNCHANGED <<qvars, head_, tail_, last_tail_, thr_p_, ptr_array_, x, n, aborted,
                   pvars, creg, cv, pushed, popped>>

\* T *ret = ptr_array_[thr_pos().tail & Q_MASK];
PopRead(c) ==
    /\ cpc[c] = "pop_read"
    /\ cv' = [cv EXCEPT ![c] = ptr_array_[BitAnd(thr_p_[c_thr_id[c]].tail, Q_MASK)]]
    /\ cpc' = [cpc EXCEPT ![c] = "pop_rel"]
    /\ UNCHANGED <<qvars, shared, x, n, aborted, pvars, creg, cmin, ck, pushed, popped>>

\* a pop that returns without resetting its entry
PopReleaseForgotten(c) ==
    /\ cpc[c] = "pop_rel"
    /\ thr_p_' = thr_p_
    /\ popped' = [popped EXCEPT ![c] = Append(popped[c], cv[c])]
    /\ IF cv[c] # NULL /\ x[Idx(cv[c])] = X_MISSED
       THEN /\ x' = [x EXCEPT ![Idx(cv[c])] = c_thr_id[c] + 1]
            /\ cpc' = [cpc EXCEPT ![c] = "c_loop"]
            /\ aborted' = aborted
       ELSE /\ aborted' = TRUE
            /\ cpc' = [cpc EXCEPT ![c] = "abort"]
            /\ x' = x
    /\ cv' = [cv EXCEPT ![c] = NULL]
    /\ UNCHANGED <<qvars, head_, tail_, last_head_, last_tail_, ptr_array_, n,
                   pvars, creg, cmin, ck, pushed>>

\* thr_pos().tail = ULONG_MAX; return ret;
\* assert(v); assert(*v == X_MISSED); *v = (q_type)(thr_id() + 1);
\* a failed assert aborts the process
PopRelease(c) ==
    /\ cpc[c] = "pop_rel"
    /\ thr_p_' = [thr_p_ EXCEPT ![c_thr_id[c]].tail = ULONG_MAX]
    /\ popped' = [popped EXCEPT ![c] = Append(popped[c], cv[c])]
    /\ IF cv[c] # NULL /\ x[Idx(cv[c])] = X_MISSED
       THEN /\ x' = [x EXCEPT ![Idx(cv[c])] = c_thr_id[c] + 1]
            /\ cpc' = [cpc EXCEPT ![c] = "c_loop"]
            /\ aborted' = aborted
       ELSE /\ aborted' = TRUE
            /\ cpc' = [cpc EXCEPT ![c] = "abort"]
            /\ x' = x
    /\ cv' = [cv EXCEPT ![c] = NULL]
    /\ UNCHANGED <<qvars, head_, tail_, last_head_, last_tail_, ptr_array_, n,
                   pvars, creg, cmin, ck, pushed>>

ProducerStep(p) ==
    /\ ~aborted
    /\ test = "lockfree"
    /\ UNCHANGED nvars
    /\ \/ ProducerLoop(p)
       \/ PushPublish(p)
       \/ PushFetchAdd(p)
       \/ PushStoreHead(p)
       \/ PushWait(p)
       \/ PushMin(p)
       \/ PushScan(p)
       \/ PushWrite(p)
       \/ PushRelease(p)

ConsumerStep(c) ==
    /\ ~aborted
    /\ test = "lockfree"
    /\ UNCHANGED nvars
    /\ \/ ConsumerLoop(c)
       \/ PopReadTail(c)
       \/ PopPublish(c)
       \/ PopFetchAdd(c)
       \/ PopStoreTail(c)
       \/ PopWait(c)
       \/ PopMin(c)
       \/ PopScan(c)
       \/ PopRead(c)
       \/ PopRelease(c)

Next ==
    \/ \E p \in Producers : ProducerStep(p)
    \/ \E c \in Consumers : ConsumerStep(c)

Spec == Init /\ [][Next]_vars

SpecSPSC == InitSPSC /\ [][Next]_vars

SpecMisuse == InitMisuse /\ [][Next]_vars

\* every thread of run_test is an OS thread of its own: a thread that can
\* take a step eventually takes one
Fairness ==
    /\ \A p \in 0 .. (PRODUCERS - 1) : WF_vars(p \in Producers /\ ProducerStep(p))
    /\ \A c \in 0 .. (CONSUMERS - 1) : WF_vars(c \in Consumers /\ ConsumerStep(c))

SpecFair == InitMPMC /\ [][Next]_vars /\ Fairness

(***************************************************************************)
(* NaiveQueue and the second test of main: run_test<NaiveQueue>.  A        *)
(* std::condition_variable::wait(lock, pred) is "while (!pred())           *)
(* wait(lock)": the predicate is evaluated with the mutex held, and a      *)
(* false predicate releases the mutex and blocks the thread in one atomic  *)
(* step.  A blocked thread leaves the wait when a notify_one picks it or   *)
(* spuriously, and then takes the mutex again before it evaluates the      *)
(* predicate.  Everything from the predicate that holds to the end of push *)
(* or pop runs with the mutex held.                                        *)
(***************************************************************************)
\* the start of run_test for the NaiveQueue, with the LockFreeQueue of the
\* first test left as it was built: no step of this test reads it
InitNaive ==
    /\ \E np \in 1 .. PRODUCERS, nc \in 1 .. CONSUMERS :
          InitRun(QUEUE_SIZE, np, nc, MaxItemsNaive, 0, 0)
    /\ test = "naive"
    /\ NaiveQueueNew
    /\ popped_lf = <<>>

\* the workloads of main: both tests, one after the other
InitMain ==
    \E np \in 1 .. PRODUCERS, nc \in 1 .. CONSUMERS :
        InitQueue(QUEUE_SIZE, np, nc,
                  IF np = PRODUCERS /\ nc = CONSUMERS THEN MaxItemsMain22 ELSE MaxItemsMain)

\* main: run_test of the LockFreeQueue has joined its threads; n_q is built
\* and run_test<NaiveQueue> stores 0 into n, clears x and starts the workers
RunNaiveTest ==
    /\ test = "lockfree"
    /\ ~aborted
    /\ \A p \in Producers : ppc[p] = "done"
    /\ \A c \in Consumers : cpc[c] = "done"
    /\ test' = "naive"
    /\ popped_lf' = popped
    /\ nq_head_' = 0
    /\ nq_tail_' = 0
    /\ \E g \in Garbage : nq_ptr_array_' = [s \in 0 .. (Q_SIZE - 1) |-> g]
    /\ mtx_' = FALSE
    /\ cond_empty_' = {}
    /\ cond_overflow_' = {}
    /\ n' = 0
    /\ x' = [i \in DOMAIN x |-> X_EMPTY]
    /\ ppc' = [p \in Producers |-> "p_loop"]
    /\ pi' = p_thr_id
    /\ cpc' = [c \in Consumers |-> "c_loop"]
    /\ pushed' = <<>>
    /\ popped' = [c \in Consumers |-> <<>>]
    /\ UNCHANGED <<qvars, shared, aborted, preg, pmin, pk, creg, cmin, ck, cv>>

\* for (i = thr_id(); i < N * PRODUCERS; ...) { x[i] = X_MISSED; push(x + i)
NaiveProducerLoop(p) ==
    /\ ppc[p] = "p_loop"
    /\ IF pi[p] < Total
       THEN /\ x' = [x EXCEPT ![pi[p]] = X_MISSED]
            /\ ppc' = [ppc EXCEPT ![p] = "npush_lock"]
       ELSE /\ ppc' = [ppc EXCEPT ![p] = "done"]
            /\ x' = x
    /\ UNCHANGED <<qvars, shared, n, aborted, pi, preg, pmin, pk, cvars, pushed, popped, nvars>>

\* return tail_ + Q_SIZE > head_;
NaivePushPred == nq_tail_ + Q_SIZE > nq_head_

\* unique_lock lock(mtx_); cond_overflow_.wait(lock, pred): the thread takes
\* the free mutex, on entry or after it was woken, and evaluates the predicate
NaivePushWait(p) ==
    /\ \/ ppc[p] = "npush_lock"
       \/ ppc[p] = "npush_wait" /\ p \notin cond_overflow_
    /\ ~mtx_
    /\ IF NaivePushPred
       THEN /\ mtx_' = TRUE
            /\ ppc' = [ppc EXCEPT ![p] = "npush_store"]
            /\ cond_overflow_' = cond_overflow_
       ELSE /\ mtx_' = FALSE
            /\ ppc' = [ppc EXCEPT ![p] = "npush_wait"]
            /\ cond_overflow_' = cond_overflow_ \cup {p}
    /\ UNCHANGED <<qvars, shared, x, n, aborted, pi, preg, pmin, pk, cvars, pushed, popped,
                   test, nq_head_, nq_tail_, nq_ptr_array_, cond_empty_, popped_lf>>

\* a push that increments head_ before it indexes the slot
NaivePushStorePreIncrement(p) ==
    /\ ppc[p] = "npush_store"
    /\ nq_ptr_array_' = [nq_ptr_array_ EXCEPT ![BitAnd(nq_head_ + 1, Q_MASK)] = Ptr(pi[p])]
    /\ nq_head_' = nq_head_ + 1
    /\ pushed' = Append(pushed, Ptr(pi[p]))
    /\ \/ cond_empty_ = {} /\ cond_empty_' = cond_empty_
       \/ \E w \in cond_empty_ : cond_empty_' = cond_empty_ \ {w}
    /\ mtx_' = FALSE
    /\ pi' = [pi EXCEPT ![p] = pi[p] + n_producers_]
    /\ ppc' = [ppc EXCEPT ![p] = "p_loop"]
    /\ UNCHANGED <<qvars, shared, x, n, aborted, preg, pmin, pk, cvars, popped,
                   test, nq_tail_, cond_overflow_, popped_lf>>

\* a push that does not notify
NaivePushStoreSilent(p) ==
    /\ ppc[p] = "npush_store"
    /\ nq_ptr_array_' = [nq_ptr_array_ EXCEPT ![BitAnd(nq_head_, Q_MASK)] = Ptr(pi[p])]
    /\ nq_head_' = nq_head_ + 1
    /\ pushed' = Append(pushed, Ptr(pi[p]))
    /\ cond_empty_' = cond_empty_
    /\ mtx_' = FALSE
    /\ pi' = [pi EXCEPT ![p] = pi[p] + n_producers_]
    /\ ppc' = [ppc EXCEPT ![p] = "p_loop"]
    /\ UNCHANGED <<qvars, shared, x, n, aborted, preg, pmin, pk, cvars, popped,
                   test, nq_tail_, cond_overflow_, popped_lf>>

\* ptr_array_[head_++ & Q_MASK] = x; cond_empty_.notify_one(); the unlock of
\* the destructor of lock; return; i += PRODUCERS
NaivePushStore(p) ==
    /\ ppc[p] = "npush_store"
    /\ nq_ptr_array_' = [nq_ptr_array_ EXCEPT ![BitAnd(nq_head_, Q_MASK)] = Ptr(pi[p])]
    /\ nq_head_' = nq_head_ + 1
    /\ pushed' = Append(pushed, Ptr(pi[p]))
    /\ \/ cond_empty_ = {} /\ cond_empty_' = cond_empty_
       \/ \E w \in cond_empty_ : cond_empty_' = cond_empty_ \ {w}
    /\ mtx_' = FALSE
    /\ pi' = [pi EXCEPT ![p] = pi[p] + n_producers_]
    /\ ppc' = [ppc EXCEPT ![p] = "p_loop"]
    /\ UNCHANGED <<qvars, shared, x, n, aborted, preg, pmin, pk, cvars, popped,
                   test, nq_tail_, cond_overflow_, popped_lf>>

\* while (n.fetch_add(1) < N * PRODUCERS) { v = pop();
NaiveConsumerLoop(c) ==
    /\ cpc[c] = "c_loop"
    /\ n' = n + 1
    /\ cpc' = [cpc EXCEPT ![c] = IF n < Total THEN "npop_lock" ELSE "done"]
    /\ UNCHANGED <<qvars, shared, x, aborted, pvars, creg, cmin, ck, cv, pushed, popped, nvars>>

\* a predicate that lets a pop through on an empty queue
NaivePopPredOffByOne == nq_tail_ <= nq_head_

\* return tail_ < head_;
NaivePopPred == nq_tail_ < nq_head_

\* unique_lock lock(mtx_); cond_empty_.wait(lock, pred)
NaivePopWait(c) ==
    /\ \/ cpc[c] = "npop_lock"
       \/ cpc[c] = "npop_wait" /\ c \notin cond_empty_
    /\ ~mtx_
    /\ IF NaivePopPred
       THEN /\ mtx_' = TRUE
            /\ cpc' = [cpc EXCEPT ![c] = "npop_take"]
            /\ cond_empty_' = cond_empty_
       ELSE /\ mtx_' = FALSE
            /\ cpc' = [cpc EXCEPT ![c] = "npop_wait"]
            /\ cond_empty_' = cond_empty_ \cup {c}
    /\ UNCHANGED <<qvars, shared, x, n, aborted, pvars, creg, cmin, ck, cv, pushed, popped,
                   test, nq_head_, nq_tail_, nq_ptr_array_, cond_overflow_, popped_lf>>

\* T *x = ptr_array_[tail_++ & Q_MASK]; cond_overflow_.notify_one(); the
\* unlock of the destructor of lock
NaivePopTake(c) ==
    /\ cpc[c] = "npop_take"
    /\ cv' = [cv EXCEPT ![c] = nq_ptr_array_[BitAnd(nq_tail_, Q_MASK)]]
    /\ nq_tail_' = nq_tail_ + 1
    /\ \/ cond_overflow_ = {} /\ cond_overflow_' = cond_overflow_
       \/ \E w \in cond_overflow_ : cond_overflow_' = cond_overflow_ \ {w}
    /\ mtx_' = FALSE
    /\ cpc' = [cpc EXCEPT ![c] = "npop_ret"]
    /\ UNCHANGED <<qvars, shared, x, n, aborted, pvars, creg, cmin, ck, pushed, popped,
                   test, nq_head_, nq_ptr_array_, cond_empty_, popped_lf>>

\* return x;
\* assert(v); assert(*v == X_MISSED); *v = (q_type)(thr_id() + 1);
NaivePopReturn(c) ==
    /\ cpc[c] = "npop_ret"
    /\ popped' = [popped EXCEPT ![c] = Append(popped[c], cv[c])]
    /\ IF cv[c] # NULL /\ x[Idx(cv[c])] = X_MISSED
       THEN /\ x' = [x EXCEPT ![Idx(cv[c])] = c_thr_id[c] + 1]
            /\ cpc' = [cpc EXCEPT ![c] = "c_loop"]
            /\ aborted' = aborted
       ELSE /\ aborted' = TRUE
            /\ cpc' = [cpc EXCEPT ![c] = "abort"]
            /\ x' = x
    /\ cv' = [cv EXCEPT ![c] = NULL]
    /\ UNCHANGED <<qvars, shared, n, pvars, creg, cmin, ck, pushed, nvars>>

\* a thread blocked in a wait wakes up without a notify
SpuriousWakeup ==
    /\ ~aborted
    /\ test = "naive"
    /\ \/ \E p \in cond_overflow_ :
             cond_overflow_' = cond_overflow_ \ {p} /\ cond_empty_' = cond_empty_
       \/ \E c \in cond_empty_ :
             cond_empty_' = cond_empty_ \ {c} /\ cond_overflow_' = cond_overflow_
    /\ UNCHANGED <<qvars, shared, x, n, aborted, pvars, cvars, pushed, popped,
                   test, nq_head_, nq_tail_, nq_ptr_array_, mtx_, popped_lf>>

NaiveProducerStep(p) ==
    /\ ~aborted
    /\ test = "naive"
    /\ \/ NaiveProducerLoop(p)
       \/ NaivePushWait(p)
       \/ NaivePushStore(p)

NaiveConsumerStep(c) ==
    /\ ~aborted
    /\ test = "naive"
    /\ \/ NaiveConsumerLoop(c)
       \/ NaivePopWait(c)
       \/ NaivePopTake(c)
       \/ NaivePopReturn(c)

NextNaive ==
    \/ \E p \in Producers : NaiveProducerStep(p)
    \/ \E c \in Consumers : NaiveConsumerStep(c)
    \/ SpuriousWakeup

NextMain ==
    \/ Next
    \/ RunNaiveTest
    \/ NextNaive

SpecNaive == InitNaive /\ [][NextNaive]_vars

SpecMain == InitMain /\ [][NextMain]_vars

\* the threads of the second test are fair as those of the first; a
\* spurious wakeup may never happen
FairnessNaive ==
    /\ \A p \in 0 .. (PRODUCERS - 1) : WF_vars(p \in Producers /\ NaiveProducerStep(p))
    /\ \A c \in 0 .. (CONSUMERS - 1) : WF_vars(c \in Consumers /\ NaiveConsumerStep(c))

SpecNaiveFair == InitNaive /\ [][NextNaive]_vars /\ FairnessNaive

(***************************************************************************)
(* Vocabulary of the properties.                                           *)
(***************************************************************************)
\* producer p holds a claim on head_: from its fetch-and-add to its release
ProdHolds(p) ==
    ppc[p] \in {"push_4", "push_wait", "push_min", "push_scan", "push_write", "push_rel"}

\* ... and has not stored its element yet
ProdUnwritten(p) ==
    ppc[p] \in {"push_4", "push_wait", "push_min", "push_scan", "push_write"}

\* ... and is still before or inside its wait loop
ProdWaiting(p) == ppc[p] \in {"push_4", "push_wait", "push_min", "push_scan"}

\* the index the fetch-and-add of producer p returned
ProdRes(p) == IF ppc[p] = "push_4" THEN preg[p] ELSE thr_p_[p_thr_id[p]].head

ConsHolds(c) ==
    cpc[c] \in {"pop_4", "pop_wait", "pop_min", "pop_scan", "pop_read", "pop_rel"}

ConsUnread(c) ==
    cpc[c] \in {"pop_4", "pop_wait", "pop_min", "pop_scan", "pop_read"}

ConsWaiting(c) == cpc[c] \in {"pop_4", "pop_wait", "pop_min", "pop_scan"}

ConsRes(c) == IF cpc[c] = "pop_4" THEN creg[c] ELSE thr_p_[c_thr_id[c]].tail

\* the producer that claimed index i has stored its element
Written(i) ==
    i < head_ /\ \A p \in Producers : ~(ProdUnwritten(p) /\ ProdRes(p) = i)

\* the push that claimed index i has released its entry (it returns)
PushDone(i) ==
    i < head_ /\ \A p \in Producers : ~(ProdHolds(p) /\ ProdRes(p) = i)

\* the push that claimed index i has left its wait loop
PushPassed(i) ==
    i < head_ /\ \A p \in Producers : ~(ProdWaiting(p) /\ ProdRes(p) = i)

\* the pop that claimed index i has read its slot and released its entry
PopDone(i) ==
    i < tail_ /\ \A c \in Consumers : ~(ConsHolds(c) /\ ConsRes(c) = i)

\* the pop that claimed index i has left its wait loop
PopPassed(i) ==
    i < tail_ /\ \A c \in Consumers : ~(ConsWaiting(c) /\ ConsRes(c) = i)

PushesDone == Cardinality({i \in 0 .. (head_ - 1) : PushDone(i)})

PopsDone == Cardinality({i \in 0 .. (tail_ - 1) : PopDone(i)})

\* occurrences of v in the sequence s
Count(s, v) == Cardinality({j \in DOMAIN s : s[j] = v})

\* occurrences of v among the pointers returned by the pops of consumers 0 .. c
RECURSIVE PoppedCount(_, _)
PoppedCount(c, v) ==
    IF c < 0 THEN 0 ELSE Count(popped[c], v) + PoppedCount(c - 1, v)

\* the same among the pointers the pops of the first test returned
RECURSIVE LfPoppedCount(_, _)
LfPoppedCount(c, v) ==
    IF c < 0 THEN 0 ELSE Count(popped_lf[c], v) + LfPoppedCount(c - 1, v)

RECURSIVE PoppedTotal(_)
PoppedTotal(c) == IF c < 0 THEN 0 ELSE Len(popped[c]) + PoppedTotal(c - 1)

\* no push and no pop is in progress
Quiesced ==
    /\ \A p \in Producers : ppc[p] \in {"p_loop", "done"}
    /\ \A c \in Consumers : cpc[c] \in {"c_loop", "done"}

AllDone ==
    /\ \A p \in Producers : ppc[p] = "done"
    /\ \A c \in Consumers : cpc[c] = "done"

\* every pointer a pop can return: null, whatever the slots held at first,
\* and the elements of x
Pointers == 0 .. Total

(***************************************************************************)
(* C1: conservation.  No consumer assert fails; at every moment each       *)
(* pointer has been returned by pop at most as often as it has been passed *)
(* to push (so never twice, and never a pointer that was not pushed); and  *)
(* once as many pops as pushes have returned and no call is in progress,   *)
(* every pointer was returned exactly as often as it was pushed.           *)
(***************************************************************************)
C1_Conservation ==
    /\ ~aborted
    /\ \A v \in Pointers :
          /\ PoppedCount(n_consumers_ - 1, v) <= Count(pushed, v)
          /\ Count(pushed, v) <= 1
    /\ (Quiesced /\ PoppedTotal(n_consumers_ - 1) = Len(pushed))
          => \A v \in Pointers : PoppedCount(n_consumers_ - 1, v) = Count(pushed, v)

\* two producers and two consumers have finished the whole workload, each
\* consumer having popped something
C1_Witness ==
    /\ AllDone
    /\ n_producers_ = 2 /\ n_consumers_ = 2
    /\ Len(pushed) = Total
    /\ PoppedTotal(n_consumers_ - 1) = Total
    /\ \A c \in Consumers : Len(popped[c]) > 0

(***************************************************************************)
(* C2: FIFO with one producer and one consumer.  The producer pushes       *)
(* x + 0, x + 1, ... in program order; the pointers returned to the        *)
(* consumer so far are a prefix of that sequence.                          *)
(***************************************************************************)
C2_FifoSPSC ==
    (n_producers_ = 1 /\ n_consumers_ = 1)
        => /\ ~aborted
           /\ \A j \in 1 .. Len(popped[0]) : popped[0][j] = Ptr(j - 1)

\* the whole workload went through a ring of 2 slots: every slot was reused
C2_Witness ==
    /\ n_producers_ = 1 /\ n_consumers_ = 1
    /\ Q_SIZE = 2
    /\ Len(popped[0]) = MaxItemsSPSC
    /\ popped[0][Len(popped[0])] = Ptr(MaxItemsSPSC - 1)

(***************************************************************************)
(* C3: write before read.  A consumer that has left its wait loop with the *)
(* index i (it is about to read the slot, or has read it) finds that the   *)
(* producer that claimed i exists and has stored its element: the slot     *)
(* holds, and the consumer reads, the element of the i-th claim.           *)
(***************************************************************************)
C3_WriteBeforeRead ==
    \A c \in Consumers :
        /\ cpc[c] = "pop_read" =>
              /\ Written(thr_p_[c_thr_id[c]].tail)
              /\ ptr_array_[BitAnd(thr_p_[c_thr_id[c]].tail, Q_MASK)] = pushed[thr_p_[c_thr_id[c]].tail + 1]
        /\ cpc[c] = "pop_rel" =>
              /\ Written(thr_p_[c_thr_id[c]].tail)
              /\ cv[c] = pushed[thr_p_[c_thr_id[c]].tail + 1]

\* a consumer is about to read a reused slot while a producer is in flight
C3_Witness ==
    \E c \in Consumers :
        /\ cpc[c] = "pop_read"
        /\ thr_p_[c_thr_id[c]].tail >= Q_SIZE
        /\ \E p \in Producers : ProdUnwritten(p)

(***************************************************************************)
(* C4: slot reuse.  A producer that has left its wait loop with an index   *)
(* i >= Q_SIZE (it is about to store, or has stored) finds that the pop    *)
(* that claimed i - Q_SIZE has read the slot and released its entry.       *)
(***************************************************************************)
C4_SlotReuse ==
    \A p \in Producers :
        (ppc[p] \in {"push_write", "push_rel"} /\ thr_p_[p_thr_id[p]].head >= Q_SIZE)
            => PopDone(thr_p_[p_thr_id[p]].head - Q_SIZE)

\* a producer is about to overwrite a slot while a consumer is in flight
C4_Witness ==
    \E p \in Producers :
        /\ ppc[p] = "push_write"
        /\ thr_p_[p_thr_id[p]].head >= Q_SIZE
        /\ \E c \in Consumers : ConsUnread(c)

C8_Original == head_ >= tail_ /\ head_ - tail_ <= Q_SIZE

(***************************************************************************)
(* C8, amended: both counters are advanced before the wait, so each side   *)
(* can run ahead by one claim per thread: tail_ <= head_ + n_consumers_    *)
(* and head_ <= tail_ + Q_SIZE + n_producers_ in every reachable state.    *)
(***************************************************************************)
C8_CounterBounds ==
    /\ tail_ <= head_ + n_consumers_
    /\ head_ <= tail_ + Q_SIZE + n_producers_

\* two producers wait on a full ring: head_ is Q_SIZE + 2 ahead of tail_
C8_Witness ==
    /\ n_producers_ = 2
    /\ head_ = tail_ + Q_SIZE + n_producers_
    /\ \A p \in Producers : ppc[p] = "push_scan"

(***************************************************************************)
(* C9: producer reservation bound, as stated: every registry entry         *)
(* thr_p_[p_thr_id[p]].head other than ULONG_MAX satisfies                           *)
(* tail_ <= r < tail_ + Q_SIZE.                                            *)
(***************************************************************************)
C9_Original ==
    \A p \in Producers :
        thr_p_[p_thr_id[p]].head # ULONG_MAX =>
            /\ tail_ <= thr_p_[p_thr_id[p]].head
            /\ thr_p_[p_thr_id[p]].head < tail_ + Q_SIZE

(***************************************************************************)
(* C9, amended: every registry entry r = thr_p_[p_thr_id[p]].head other than         *)
(* ULONG_MAX satisfies r <= head_ and r < tail_ + Q_SIZE + n_producers_;   *)
(* r < tail_ + Q_SIZE holds once the producer has left its wait loop; and  *)
(* r >= tail_ - n_consumers_ holds once r is the result of the             *)
(* fetch-and-add (the value stored by the first assignment can be          *)
(* arbitrarily far behind tail_).                                          *)
(***************************************************************************)
C9_ReservationBound ==
    \A p \in Producers :
        thr_p_[p_thr_id[p]].head # ULONG_MAX =>
            /\ thr_p_[p_thr_id[p]].head <= head_
            /\ thr_p_[p_thr_id[p]].head < tail_ + Q_SIZE + n_producers_
            /\ ppc[p] \in {"push_write", "push_rel"} => thr_p_[p_thr_id[p]].head < tail_ + Q_SIZE
            /\ ppc[p] \in {"push_wait", "push_min", "push_scan", "push_write", "push_rel"}
                  => thr_p_[p_thr_id[p]].head >= tail_ - n_consumers_

\* two producers wait on a full ring; the registry entry of one of them is
\* tail_ + Q_SIZE + 1
C9_Witness ==
    /\ n_producers_ = 2
    /\ \E p \in Producers :
          /\ ppc[p] = "push_scan"
          /\ thr_p_[p_thr_id[p]].head = tail_ + Q_SIZE + 1

\* the least element of a non-empty set of numbers
SetMin(S) == CHOOSE m \in S : \A e \in S : m <= e

\* the registry entries of the consumers / producers that are not ULONG_MAX
TailEntries == {thr_p_[c_thr_id[c]].tail : c \in Consumers} \ {ULONG_MAX}

HeadEntries == {thr_p_[p_thr_id[p]].head : p \in Producers} \ {ULONG_MAX}

(***************************************************************************)
(* C10: safe-bound invariant, as stated: last_tail_ <= the least consumer  *)
(* entry other than ULONG_MAX <= tail_, and last_head_ <= the least        *)
(* producer entry other than ULONG_MAX <= head_.                           *)
(***************************************************************************)
C10_Original ==
    /\ TailEntries # {} =>
          (last_tail_ <= SetMin(TailEntries) /\ SetMin(TailEntries) <= tail_)
    /\ HeadEntries # {} =>
          (last_head_ <= SetMin(HeadEntries) /\ SetMin(HeadEntries) <= head_)

(***************************************************************************)
(* C10, amended: every entry other than ULONG_MAX is <= tail_ (<= head_),  *)
(* last_tail_ <= tail_ and last_head_ <= head_, and last_tail_             *)
(* (last_head_) is <= every entry that holds the result of its thread's    *)
(* fetch-and-add.  The value stored by the first assignment of pop (push)  *)
(* is read from tail_ (head_) earlier and can be below last_tail_          *)
(* (last_head_).                                                           *)
(***************************************************************************)
C10_SafeBound ==
    /\ last_tail_ <= tail_
    /\ last_head_ <= head_
    /\ \A t \in TailEntries : t <= tail_
    /\ \A h \in HeadEntries : h <= head_
    /\ \A c \in Consumers :
          cpc[c] \in {"pop_wait", "pop_min", "pop_scan", "pop_read", "pop_rel"}
              => last_tail_ <= thr_p_[c_thr_id[c]].tail
    /\ \A p \in Producers :
          ppc[p] \in {"push_wait", "push_min", "push_scan", "push_write", "push_rel"}
              => last_head_ <= thr_p_[p_thr_id[p]].head

\* a consumer has published, in its first assignment, a value of tail_ that
\* is below last_tail_
C10_Witness ==
    \E c \in Consumers : cpc[c] = "pop_3" /\ thr_p_[c_thr_id[c]].tail < last_tail_

(***************************************************************************)
(* C11: cached bounds are monotone, as stated: no step decreases           *)
(* last_head_ or last_tail_.                                               *)
(***************************************************************************)
C11_Original == [][last_head_' >= last_head_ /\ last_tail_' >= last_tail_]_vars

(***************************************************************************)
(* C11, amended: with one producer and one consumer no step decreases      *)
(* last_head_ or last_tail_.  With several threads a store can write a     *)
(* smaller value (a scan that ends late, or that read the value of a first *)
(* assignment); every store writes a value <= tail_ (<= head_).            *)
(***************************************************************************)
C11_CachedBounds ==
    [][/\ (n_producers_ = 1 /\ n_consumers_ = 1)
             => (last_head_' >= last_head_ /\ last_tail_' >= last_tail_)
       /\ last_tail_' # last_tail_ => last_tail_' <= tail_
       /\ last_head_' # last_head_ => last_head_' <= head_]_vars

\* one producer and one consumer: both cached bounds have been advanced
\* past the first round of the ring
C11_Witness ==
    /\ n_producers_ = 1 /\ n_consumers_ = 1
    /\ last_tail_ > Q_SIZE
    /\ last_head_ > Q_SIZE

(***************************************************************************)
(* C12: registry uniqueness, as stated: no two producers have the same     *)
(* entry thr_p_[p_thr_id[p]].head other than ULONG_MAX and no two consumers the same *)
(* entry thr_p_[c_thr_id[c]].tail other than ULONG_MAX, the values of the first      *)
(* assignment included.                                                    *)
(***************************************************************************)
C12_Original ==
    /\ \A p, q \in Producers :
          (p # q /\ thr_p_[p_thr_id[p]].head # ULONG_MAX) => thr_p_[p_thr_id[p]].head # thr_p_[p_thr_id[q]].head
    /\ \A c, d \in Consumers :
          (c # d /\ thr_p_[c_thr_id[c]].tail # ULONG_MAX) => thr_p_[c_thr_id[c]].tail # thr_p_[c_thr_id[d]].tail

(***************************************************************************)
(* C12, amended: no two producers hold the same result of the              *)
(* fetch-and-add on head_ and no two consumers the same result of the      *)
(* fetch-and-add on tail_, in the register or in the registry.  The value  *)
(* of a first assignment can equal the entry of another thread.            *)
(***************************************************************************)
C12_UniqueClaims ==
    /\ \A p, q \in Producers :
          (p # q /\ ProdHolds(p) /\ ProdHolds(q)) => ProdRes(p) # ProdRes(q)
    /\ \A c, d \in Consumers :
          (c # d /\ ConsHolds(c) /\ ConsHolds(d)) => ConsRes(c) # ConsRes(d)

\* two producers and two consumers have each stored the result of their
\* fetch-and-add into the registry
C12_Witness ==
    /\ n_producers_ = 2 /\ n_consumers_ = 2
    /\ \A p \in Producers : ppc[p] \in {"push_wait", "push_min", "push_scan", "push_write"}
    /\ \A c \in Consumers : cpc[c] \in {"pop_wait", "pop_min", "pop_scan", "pop_read"}

(***************************************************************************)
(* C16: two-step publication.  From the fetch-and-add of producer p to its *)
(* store into the slot, the entry thr_p_[p_thr_id[p]].head that any thread can read  *)
(* is <= the result of the fetch-and-add (so never ULONG_MAX); the same    *)
(* for consumer c and thr_p_[c_thr_id[c]].tail from its fetch-and-add to its read of *)
(* the slot.                                                               *)
(***************************************************************************)
C16_TwoStepPublication ==
    /\ \A p \in Producers : ProdUnwritten(p) => thr_p_[p_thr_id[p]].head <= ProdRes(p)
    /\ \A c \in Consumers : ConsUnread(c) => thr_p_[c_thr_id[c]].tail <= ConsRes(c)

\* a producer and a consumer are both between their fetch-and-add and the
\* second assignment: their entries hold an older, smaller value
C16_Witness ==
    /\ \E p \in Producers : ppc[p] = "push_4" /\ thr_p_[p_thr_id[p]].head < preg[p]
    /\ \E c \in Consumers : cpc[c] = "pop_4" /\ thr_p_[c_thr_id[c]].tail < creg[c]

(***************************************************************************)
(* C17: sentinel when idle.  A thread that is not inside push has          *)
(* thr_p_[id].head = ULONG_MAX and a thread that is not inside pop has     *)
(* thr_p_[id].tail = ULONG_MAX: at construction, between the calls and     *)
(* after the last one; so do the entries no thread of the role owns.       *)
(***************************************************************************)
C17_SentinelWhenIdle ==
    /\ \A p \in Producers : ppc[p] \in {"p_loop", "done"} => thr_p_[p_thr_id[p]].head = ULONG_MAX
    /\ \A c \in Consumers : cpc[c] \in {"c_loop", "done"} => thr_p_[c_thr_id[c]].tail = ULONG_MAX
    /\ \A i \in DOMAIN thr_p_ :
          /\ i \notin Producers => thr_p_[i].head = ULONG_MAX
          /\ i \notin Consumers => thr_p_[i].tail = ULONG_MAX

\* every worker has returned from its last call, after at least one push by
\* each producer and one pop by each consumer
C17_Witness ==
    /\ AllDone
    /\ n_producers_ = 2 /\ n_consumers_ = 2
    /\ \A c \in Consumers : Len(popped[c]) > 0
    /\ \A i \in DOMAIN thr_p_ : thr_p_[i] = [head |-> ULONG_MAX, tail |-> ULONG_MAX]

(***************************************************************************)
(* C19: effective safe bound.  last_tail_ <= tail_ and last_tail_ <= r for *)
(* every consumer that has obtained r from its fetch-and-add and has not   *)
(* read its slot yet; last_head_ <= head_ and last_head_ <= r for every    *)
(* producer that has obtained r and has not stored into its slot yet.      *)
(***************************************************************************)
C19_EffectiveSafeBound ==
    /\ last_tail_ <= tail_
    /\ \A c \in Consumers : ConsUnread(c) => last_tail_ <= ConsRes(c)
    /\ last_head_ <= head_
    /\ \A p \in Producers : ProdUnwritten(p) => last_head_ <= ProdRes(p)

\* a scan result is stored late: a producer is about to store a minimum
\* below last_tail_ while a consumer is between its claim and its read
C19_Witness ==
    /\ \E p \in Producers :
          ppc[p] = "push_scan" /\ pk[p] = n_consumers_ /\ pmin[p] < last_tail_
    /\ \E c \in Consumers : ConsUnread(c)

(***************************************************************************)
(* Blocked threads.  A producer inside its wait loop is blocked when its   *)
(* index is >= Q_SIZE above the least of tail_ and the indexes the         *)
(* consumers hold: no scan it can make ends the loop.  A consumer inside   *)
(* its wait loop is blocked when its slot is not written yet.              *)
(***************************************************************************)
ProdBlocked(p) ==
    /\ ppc[p] \in {"push_wait", "push_min", "push_scan"}
    /\ \/ PushWaitCond(thr_p_[p_thr_id[p]].head, tail_)
       \/ \E c \in Consumers : ConsHolds(c) /\ PushWaitCond(thr_p_[p_thr_id[p]].head, ConsRes(c))

ConsBlocked(c) ==
    /\ cpc[c] \in {"pop_wait", "pop_min", "pop_scan"}
    /\ ~Written(thr_p_[c_thr_id[c]].tail)

\* a producer / consumer that is inside a call and not blocked, or whose
\* loop test is about to start another call
ProdCanAct(p) ==
    /\ ppc[p] \notin {"done", "abort"}
    /\ ~ProdBlocked(p)
    /\ ppc[p] = "p_loop" => pi[p] < Total

ConsCanAct(c) ==
    /\ cpc[c] \notin {"done", "abort"}
    /\ ~ConsBlocked(c)
    /\ cpc[c] = "c_loop" => n < Total

(***************************************************************************)
(* C18: blocking argument, as stated: whenever a thread is blocked in its  *)
(* wait loop, some other thread holds an index that it obtained from its   *)
(* fetch-and-add and has not released, strictly below the index of the     *)
(* blocked thread.                                                         *)
(***************************************************************************)
C18_Original ==
    /\ \A p \in Producers : ProdBlocked(p) =>
          \/ \E q \in Producers \ {p} : ProdHolds(q) /\ ProdRes(q) < thr_p_[p_thr_id[p]].head
          \/ \E c \in Consumers : ConsHolds(c) /\ ConsRes(c) < thr_p_[p_thr_id[p]].head
    /\ \A c \in Consumers : ConsBlocked(c) =>
          \/ \E d \in Consumers \ {c} : ConsHolds(d) /\ ConsRes(d) < thr_p_[c_thr_id[c]].tail
          \/ \E p \in Producers : ProdHolds(p) /\ ProdRes(p) < thr_p_[c_thr_id[c]].tail

(***************************************************************************)
(* C18, amended: whenever a thread is blocked in its wait loop, some other *)
(* thread is not blocked and is either inside a push or pop or about to    *)
(* start one (its loop test succeeds).                                     *)
(***************************************************************************)
C18_BlockedHasWaker ==
    /\ \A p \in Producers : ProdBlocked(p) =>
          \/ \E q \in Producers \ {p} : ProdCanAct(q)
          \/ \E c \in Consumers : ConsCanAct(c)
    /\ \A c \in Consumers : ConsBlocked(c) =>
          \/ \E p \in Producers : ProdCanAct(p)
          \/ \E d \in Consumers \ {c} : ConsCanAct(d)

\* a producer is blocked on a full queue while no other thread holds any index
C18_Witness ==
    /\ \E p \in Producers :
          /\ ProdBlocked(p)
          /\ \A q \in Producers \ {p} : ~ProdHolds(q)
          /\ \A c \in Consumers : ~ConsHolds(c)

(***************************************************************************)
(* C15: misuse detection.  A producer whose thread index is outside        *)
(* [0, n_producers) never gets past the first thr_pos() of push, and a     *)
(* consumer whose thread index is outside [0, n_consumers) never gets past *)
(* the first thr_pos() of pop: the assert stops it before it stores into   *)
(* thr_p_, adds to head_ / tail_ or touches a slot.                        *)
(***************************************************************************)
C15_MisuseCaught ==
    /\ \A p \in Producers : p_thr_id[p] \notin 0 .. (n_producers_ - 1) =>
          ppc[p] \in {"p_loop", "push_2", "abort", "done"}
    /\ \A c \in Consumers : c_thr_id[c] \notin 0 .. (n_consumers_ - 1) =>
          cpc[c] \in {"c_loop", "pop_1", "pop_2", "abort", "done"}

(***************************************************************************)
(* C13: reference parity.  During the test of the NaiveQueue, which main   *)
(* runs on the workload the LockFreeQueue has completed, the pops have     *)
(* returned each pointer at most as often as the pops of the LockFreeQueue *)
(* did, and exactly as often once all workers have finished; with one      *)
(* producer and one consumer the pointers returned so far are a prefix of  *)
(* the sequence the LockFreeQueue returned, and the whole of it at the     *)
(* end.                                                                    *)
(***************************************************************************)
C13_ReferenceParity ==
    test = "naive" =>
        /\ \A v \in Pointers :
              PoppedCount(n_consumers_ - 1, v) <= LfPoppedCount(n_consumers_ - 1, v)
        /\ AllDone => \A v \in Pointers :
              PoppedCount(n_consumers_ - 1, v) = LfPoppedCount(n_consumers_ - 1, v)
        /\ (n_producers_ = 1 /\ n_consumers_ = 1) =>
              /\ Len(popped[0]) <= Len(popped_lf[0])
              /\ \A j \in 1 .. Len(popped[0]) : popped[0][j] = popped_lf[0][j]
              /\ AllDone => popped[0] = popped_lf[0]

\* both tests have finished with two producers and two consumers, and the
\* consumers did not receive the same pointers in the two tests
C13_Witness ==
    /\ test = "naive"
    /\ AllDone
    /\ n_producers_ = 2 /\ n_consumers_ = 2
    /\ PoppedTotal(n_consumers_ - 1) = Total
    /\ popped # popped_lf

(***************************************************************************)
(* C14: NaiveQueue is strict FIFO and bounded.  0 <= head_ - tail_ <=      *)
(* Q_SIZE at all times; a push stores only when the queue is not full; a   *)
(* pop reads only when it is not empty, and the k-th pop to pass its wait  *)
(* returns the pointer the k-th push stored.                               *)
(***************************************************************************)
C14_NaiveFifo ==
    [][test = "naive" =>
          /\ nq_tail_' <= nq_head_' /\ nq_head_' <= nq_tail_' + Q_SIZE
          /\ nq_head_' # nq_head_ => nq_head_ - nq_tail_ < Q_SIZE
          /\ nq_tail_' # nq_tail_ =>
                /\ nq_tail_ < nq_head_
                /\ \E c \in Consumers :
                      /\ cpc[c] = "npop_take" /\ cpc'[c] = "npop_ret"
                      /\ cv'[c] = pushed[nq_tail_ + 1]]_vars

\* with two producers and two consumers a pop has returned from a slot that
\* was used before
C14_Witness ==
    /\ test = "naive"
    /\ n_producers_ = 2 /\ n_consumers_ = 2
    /\ nq_tail_ > Q_SIZE
    /\ \E c \in Consumers : cpc[c] = "npop_ret" /\ cv[c] = pushed[nq_tail_]

(***************************************************************************)
(* C20: no lost wakeup in NaiveQueue.  With fair threads and as many pops  *)
(* as pushes, every producer blocked in cond_overflow_.wait and every      *)
(* consumer blocked in cond_empty_.wait is woken: all workers of the test  *)
(* finish, with notify_one and with or without spurious wakeups.           *)
(***************************************************************************)
C20_NoLostWakeup == <>(test = "naive" /\ AllDone /\ cond_empty_ = {} /\ cond_overflow_ = {})

\* both consumers are blocked on the empty queue while a producer is about
\* to store and notify one of them
C20_Witness ==
    /\ test = "naive"
    /\ Cardinality(cond_empty_) = 2
    /\ \E p \in Producers : ppc[p] = "npush_store"

=============================================================================
